---- MODULE Spec2Model ----
(***************************************************************************)
(* A model of src/app.py (Global News Explorer): the search handler main,  *)
(* the query builder, the look-back period resolver, the three GDELT mode  *)
(* calls made by aggregate_gdelt_data and the display stages.              *)
(*                                                                         *)
(* Text is a sequence of one-character strings, a DataFrame is the         *)
(* sequence of its rows (empty = <<>>), a datetime is a whole number of    *)
(* days, and an exception leaving main is recorded in `raised`.            *)
(***************************************************************************)
EXTENDS Integers, Sequences, FiniteSets, TLC

VARIABLES
    pc,               \* position of the script run inside main
    keyword_input,    \* st.text_input value (sequence of characters)
    lookback_period,  \* st.selectbox value
    search_button,    \* st.button value of this run
    query,            \* result of build_query
    now,              \* the wall clock read by datetime.now() (days)
    start_datetime,   \* get_start_date result
    end_datetime,
    responses,        \* mode -> what requests.get did for that mode
    net,              \* network calls issued during this run, in order
    timeline_df,
    tone_df,
    articles_df,
    summarizer,       \* what the summarization service did in this run
    summary,          \* text rendered by display_summary
    rendered,         \* what the run put on the page, in order
    raised            \* exception that left main ("none" if none)

vars == <<pc, keyword_input, lookback_period, search_button, query, now,
          start_datetime, end_datetime, responses, net, timeline_df, tone_df,
          articles_df, summarizer, summary, rendered, raised>>

(***************************************************************************)
(* Bounds                                                                  *)
(***************************************************************************)
MaxLen == 5        \* longest raw keyword text handed to build_query
MaxPoints == 8     \* longest timeline payload
MaxNow == 12       \* last clock value

(***************************************************************************)
(* Text                                                                    *)
(***************************************************************************)
QUOTE == "\""
SPACE == " "
SEMI == ";"

InputChars == {"a", SPACE, QUOTE, SEMI}

RECURSIVE TextsOfLen(_)
TextsOfLen(n) ==
    IF n = 0 THEN {<<>>}
    ELSE {Append(t, c) : t \in TextsOfLen(n - 1), c \in InputChars}

Texts == UNION {TextsOfLen(n) : n \in 0..MaxLen}

\* str.split(";"): always at least one piece, empty pieces are kept
RECURSIVE split(_)
split(s) ==
    IF \A i \in 1..Len(s) : s[i] # SEMI THEN <<s>>
    ELSE LET i == CHOOSE k \in 1..Len(s) :
                     s[k] = SEMI /\ \A j \in 1..(k - 1) : s[j] # SEMI
         IN <<SubSeq(s, 1, i - 1)>> \o split(SubSeq(s, i + 1, Len(s)))

\* str.strip(): drop leading and trailing whitespace
RECURSIVE strip(_)
strip(s) ==
    IF s = <<>> THEN s
    ELSE IF s[1] = SPACE THEN strip(Tail(s))
    ELSE IF s[Len(s)] = SPACE THEN strip(SubSeq(s, 1, Len(s) - 1))
    ELSE s

startswith(s, c) == Len(s) >= 1 /\ s[1] = c
endswith(s, c) == Len(s) >= 1 /\ s[Len(s)] = c

\* sep.join(pieces)
RECURSIVE join(_, _)
join(sep, pieces) ==
    IF pieces = <<>> THEN <<>>
    ELSE IF Len(pieces) = 1 THEN pieces[1]
    ELSE pieces[1] \o sep \o join(sep, Tail(pieces))

ensure_keyword_in_quotes(keyword) ==
    LET k == strip(keyword)
    IN IF ~(startswith(k, QUOTE) /\ endswith(k, QUOTE))
       THEN <<QUOTE>> \o k \o <<QUOTE>>
       ELSE k

OR_SEP == <<SPACE, "O", "R", SPACE>>

build_query(keyword_input_) ==
    LET keywords == split(keyword_input_)
    IN IF Len(keywords) > 1
       THEN <<"(">> \o join(OR_SEP,
                [i \in 1..Len(keywords) |-> ensure_keyword_in_quotes(strip(keywords[i]))])
            \o <<")">>
       ELSE ensure_keyword_in_quotes(strip(keywords[1]))

(***************************************************************************)
(* get_start_date                                                          *)
(***************************************************************************)
LookbackOptions == {"1 week", "1 month", "3 months", "6 months", "1 year"}

\* the timedelta of each branch, in days
lookback_timedelta(lookback_period_) ==
    CASE lookback_period_ = "1 week" -> 7 * 1
      [] lookback_period_ = "1 month" -> 30
      [] lookback_period_ = "3 months" -> 90
      [] lookback_period_ = "6 months" -> 180
      [] lookback_period_ = "1 year" -> 365

\* get_start_date with the month taken as 31 days
get_start_date_long_month(lookback_period_, clock) ==
    LET end == clock
    IN <<end - (IF lookback_period_ = "1 month" THEN 31
                ELSE lookback_timedelta(lookback_period_)), end>>

\* returns (start_datetime, end_datetime); clock is what datetime.now() reads
get_start_date(lookback_period_, clock) ==
    LET end == clock
    IN <<end - lookback_timedelta(lookback_period_), end>>

(***************************************************************************)
(* The news-search service and query_gdelt_data                            *)
(***************************************************************************)
Modes == {"timelinevol", "tonechart", "artlist"}

NoResponse == [kind |-> "none", status |-> 0,
               body |-> [shape |-> "none", content |-> <<>>]]

\* requests.get raises instead of returning a response
TransportFailure == [kind |-> "raise", status |-> 0,
                     body |-> [shape |-> "none", content |-> <<>>]]

Http(status, body) == [kind |-> "http", status |-> status, body |-> body]

NotJson == [shape |-> "notjson", content |-> <<>>]    \* body that is not JSON
EmptyObject == [shape |-> "emptyobj", content |-> <<>>] \* the JSON object {}
\* {"timeline": series} / {"tonechart": rows} / {"articles": rows}
Object(content) == [shape |-> "object", content |-> content]
None == [shape |-> "None", content |-> <<>>]

\* result of query_gdelt_data: the exception it lets through, or its value
query_gdelt_data_raise_for_status(response) ==
    IF response.kind = "raise" THEN [exc |-> "ConnectionError", data |-> None]
    ELSE IF response.status = 200
         THEN IF response.body.shape = "notjson"
              THEN [exc |-> "JSONDecodeError", data |-> None]
              ELSE [exc |-> "none", data |-> response.body]
         ELSE [exc |-> "HTTPError", data |-> None]

query_gdelt_data(response) ==
    IF response.kind = "raise" THEN [exc |-> "ConnectionError", data |-> None]
    ELSE IF response.status = 200
         THEN IF response.body.shape = "notjson"
              THEN [exc |-> "JSONDecodeError", data |-> None]
              ELSE [exc |-> "none", data |-> response.body]
         ELSE [exc |-> "none", data |-> None]

\* Python truth value of what query_gdelt_data returned: None and {} are false
truthy(data) == data.shape = "object"

(***************************************************************************)
(* The timeline table and its rolling mean                                 *)
(***************************************************************************)
NaN == [defined |-> FALSE, num |-> 0, den |-> 1]

rolling_window_short == 7 - 1
rolling_window == 7

\* Series.rolling(window).mean(): a sliding sum over the rows in table order,
\* add the entering value, drop the one leaving the window; NaN until the
\* window holds `window` observations.  The mean is the exact ratio num/den.
RECURSIVE rolling_sum(_, _, _)
rolling_sum(values, window, i) ==
    IF i = 0 THEN 0
    ELSE rolling_sum(values, window, i - 1) + values[i]
         - (IF i > window THEN values[i - window] ELSE 0)

rolling_mean(values, window) ==
    [i \in 1..Len(values) |->
        IF i >= window
        THEN [defined |-> TRUE, num |-> rolling_sum(values, window, i), den |-> window]
        ELSE NaN]

\* lines 172-175: DataFrame(timeline_data['timeline'][0]['data']) plus the
\* moving_avg column, rows kept in the order the payload lists them
timeline_frame(timeline_data) ==
    IF timeline_data.content = <<>> THEN [exc |-> "IndexError", df |-> <<>>]
    ELSE LET data == timeline_data.content[1].data
             values == [i \in 1..Len(data) |-> data[i].value]
             avg == rolling_mean(values, rolling_window)
         IN IF data = <<>> THEN [exc |-> "KeyError", df |-> <<>>]
            ELSE [exc |-> "none",
                  df |-> [i \in 1..Len(data) |->
                             [date |-> data[i].date, value |-> data[i].value,
                              moving_avg |-> avg[i]]]]

(***************************************************************************)
(* What the two services may answer                                        *)
(***************************************************************************)
P(d, v) == [date |-> d, value |-> v]

\* data points a payload may list: two dates, two values
Points == {P(1, 1), P(2, 1), P(1, 3)}

RECURSIVE PointSeqs(_)
PointSeqs(n) ==
    IF n = 0 THEN {<<>>}
    ELSE {Append(t, p) : t \in PointSeqs(n - 1), p \in Points}

TimelineBody(data) == Object(<<[data |-> data]>>)

\* a few answers of each shape, for the whole-pipeline specification
FewTimelineResponses ==
    {TransportFailure, Http(500, NotJson), Http(404, EmptyObject),
     Http(200, NotJson), Http(200, EmptyObject), Http(200, Object(<<>>)),
     Http(200, TimelineBody(<<>>)), Http(200, TimelineBody(<<P(1, 3)>>)),
     Http(200, TimelineBody(<<P(2, 1), P(1, 3)>>)),
     Http(500, TimelineBody(<<P(1, 1)>>))}

\* every payload of up to MaxPoints points, for the timeline specification
AllTimelineResponses ==
    {Http(200, TimelineBody(d)) : d \in UNION {PointSeqs(n) : n \in 0..MaxPoints}}

ToneRows == {<<>>, <<[bin |-> -2, count |-> 10]>>,
             <<[bin |-> -2, count |-> 10], [bin |-> 0, count |-> 5]>>}

ToneResponses ==
    {TransportFailure, Http(500, NotJson), Http(200, NotJson),
     Http(200, EmptyObject)}
    \cup {Http(st, Object(r)) : st \in {200, 404}, r \in ToneRows}

ArticleRows == {<<>>, <<[title |-> "t1", url |-> "u1"]>>,
                <<[title |-> "t1", url |-> "u1"], [title |-> "t2", url |-> "u2"]>>}

ArticleResponses ==
    {TransportFailure, Http(500, NotJson), Http(200, NotJson),
     Http(200, EmptyObject)}
    \cup {Http(st, Object(r)) : st \in {200, 500}, r \in ArticleRows}

\* model.generate_content(prompt) / response.text
SummarizerOutcomes == {"text", "generate_content raises", "response.text raises"}

GeneratedText == "generated summary"
FallbackSummary == "Summary not available due to an error."

\* raw keyword texts offered to the whole-pipeline specification
T_empty == <<>>
T_aaaa == <<"a", "a", "a", "a">>
T_aaaaa == <<"a", "a", "a", "a", "a">>
T_list == <<"a", SEMI, "a", SEMI, "a">>
T_semis == <<SEMI, SEMI, SEMI, SEMI, SEMI>>
T_quote == <<"a", SEMI, "a", SEMI, QUOTE>>
KeywordInputs == {T_empty, T_aaaa, T_aaaaa, T_list, T_semis, T_quote}

(***************************************************************************)
(* State                                                                   *)
(***************************************************************************)
NoResponses == [m \in Modes |-> NoResponse]

\* the locals of a script run before main's search branch has run
Fresh ==
    /\ query = <<>>
    /\ start_datetime = 0
    /\ end_datetime = 0
    /\ responses = NoResponses
    /\ net = <<>>
    /\ timeline_df = <<>>
    /\ tone_df = <<>>
    /\ articles_df = <<>>
    /\ summarizer = "not called"
    /\ summary = ""
    /\ rendered = <<>>
    /\ raised = "none"

Init ==
    /\ pc = "idle"
    /\ keyword_input = <<>>
    /\ lookback_period = "1 month"
    /\ search_button = FALSE
    /\ now = 0
    /\ Fresh

(***************************************************************************)
(* main: one script run, from the user's interaction to the last widget    *)
(***************************************************************************)
MinKeywordLen == 5

keyword_too_short_off_by_one(keyword_input_) == Len(keyword_input_) < MinKeywordLen - 1

\* line 52
keyword_too_short(keyword_input_) == Len(keyword_input_) < MinKeywordLen

\* The user changes a widget or presses the button: Streamlit runs main from
\* the top with fresh locals (lines 14-51).
Rerun ==
    /\ pc \in {"idle", "done", "crashed"}
    /\ \E k \in KeywordInputs, l \in LookbackOptions, b \in BOOLEAN :
          /\ keyword_input' = k
          /\ lookback_period' = l
          /\ search_button' = b
          /\ pc' = IF b THEN "validate" ELSE "done"
    /\ query' = <<>>
    /\ start_datetime' = 0
    /\ end_datetime' = 0
    /\ responses' = NoResponses
    /\ net' = <<>>
    /\ timeline_df' = <<>>
    /\ tone_df' = <<>>
    /\ articles_df' = <<>>
    /\ summarizer' = "not called"
    /\ summary' = ""
    /\ rendered' = <<>>
    /\ raised' = "none"
    /\ UNCHANGED now

\* lines 52-55
Validate ==
    /\ pc = "validate"
    /\ IF keyword_too_short(keyword_input)
       THEN /\ rendered' = Append(rendered, "warning: at least 5 characters")
            /\ pc' = "done"
            /\ UNCHANGED query
       ELSE /\ query' = build_query(keyword_input)
            /\ pc' = "period"
            /\ UNCHANGED rendered
    /\ UNCHANGED <<keyword_input, lookback_period, search_button, now,
                   start_datetime, end_datetime, responses, net, timeline_df,
                   tone_df, articles_df, summarizer, summary, raised>>

\* line 58
GetStartDate ==
    /\ pc = "period"
    /\ LET r == get_start_date(lookback_period, now)
       IN /\ start_datetime' = r[1]
          /\ end_datetime' = r[2]
    /\ pc' = "timelinevol"
    /\ UNCHANGED <<keyword_input, lookback_period, search_button, query, now,
                   responses, net, timeline_df, tone_df, articles_df, summarizer,
                   summary, rendered, raised>>

\* the clock moves on
Tick ==
    /\ now < MaxNow
    /\ now' = now + 1
    /\ UNCHANGED <<pc, keyword_input, lookback_period, search_button, query,
                   start_datetime, end_datetime, responses, net, timeline_df,
                   tone_df, articles_df, summarizer, summary, rendered, raised>>

\* aggregate_gdelt_data, lines 170-175: the timelinevol call
QueryTimeline(Answers) ==
    /\ pc = "timelinevol"
    /\ \E response \in Answers :
          LET r == query_gdelt_data(response)
              f == timeline_frame(r.data)
          IN /\ responses' = [responses EXCEPT !["timelinevol"] = response]
             /\ net' = Append(net, "timelinevol")
             /\ IF r.exc # "none"
                THEN raised' = r.exc /\ pc' = "crashed" /\ UNCHANGED timeline_df
                ELSE IF ~truthy(r.data)
                THEN pc' = "tonechart" /\ UNCHANGED <<timeline_df, raised>>
                ELSE IF f.exc # "none"
                THEN raised' = f.exc /\ pc' = "crashed" /\ UNCHANGED timeline_df
                ELSE timeline_df' = f.df /\ pc' = "tonechart" /\ UNCHANGED raised
    /\ UNCHANGED <<keyword_input, lookback_period, search_button, query, now,
                   start_datetime, end_datetime, tone_df, articles_df, summarizer,
                   summary, rendered>>

\* aggregate_gdelt_data, lines 177-179: the tonechart call
QueryTone(Answers) ==
    /\ pc = "tonechart"
    /\ \E response \in Answers :
          LET r == query_gdelt_data(response)
          IN /\ responses' = [responses EXCEPT !["tonechart"] = response]
             /\ net' = Append(net, "tonechart")
             /\ IF r.exc # "none"
                THEN raised' = r.exc /\ pc' = "crashed" /\ UNCHANGED tone_df
                ELSE /\ tone_df' = IF truthy(r.data) THEN r.data.content ELSE tone_df
                     /\ pc' = "artlist"
                     /\ UNCHANGED raised
    /\ UNCHANGED <<keyword_input, lookback_period, search_button, query, now,
                   start_datetime, end_datetime, timeline_df, articles_df,
                   summarizer, summary, rendered>>

\* aggregate_gdelt_data, lines 181-185: the artlist call and the return
QueryArticles(Answers) ==
    /\ pc = "artlist"
    /\ \E response \in Answers :
          LET r == query_gdelt_data(response)
          IN /\ responses' = [responses EXCEPT !["artlist"] = response]
             /\ net' = Append(net, "artlist")
             /\ IF r.exc # "none"
                THEN raised' = r.exc /\ pc' = "crashed" /\ UNCHANGED articles_df
                ELSE /\ articles_df' = IF truthy(r.data) THEN r.data.content
                                                         ELSE articles_df
                     /\ pc' = "results"
                     /\ UNCHANGED raised
    /\ UNCHANGED <<keyword_input, lookback_period, search_button, query, now,
                   start_datetime, end_datetime, timeline_df, tone_df, summarizer,
                   summary, rendered>>

\* lines 62-66 and 72-73: the results header, then the branch on articles_df
ShowResults ==
    /\ pc = "results"
    /\ IF articles_df # <<>>
       THEN /\ rendered' = Append(rendered, "results header")
            /\ pc' = "display_summary"
       ELSE /\ rendered' = rendered \o <<"results header", "warning: no articles found">>
            /\ pc' = "done"
    /\ UNCHANGED <<keyword_input, lookback_period, search_button, query, now,
                   start_datetime, end_datetime, responses, net, timeline_df,
                   tone_df, articles_df, summarizer, summary, raised>>

\* display_summary when the try block has no except clause
display_summary_uncaught(outcome) ==
    IF outcome = "text"
    THEN [exc |-> "none", summary |-> GeneratedText,
          out |-> <<"summary header", "summary">>]
    ELSE [exc |-> "Exception", summary |-> "", out |-> <<"summary header">>]

\* lines 188-205: what display_summary renders and the summary it shows
display_summary(outcome) ==
    IF outcome = "text"
    THEN [exc |-> "none", summary |-> GeneratedText,
          out |-> <<"summary header", "summary">>]
    ELSE [exc |-> "none", summary |-> FallbackSummary,
          out |-> <<"summary header", "error: summarization", "summary">>]

\* line 67
DisplaySummary ==
    /\ pc = "display_summary"
    /\ \E outcome \in SummarizerOutcomes :
          LET r == display_summary(outcome)
          IN /\ summarizer' = outcome
             /\ net' = Append(net, "generate_content")
             /\ summary' = r.summary
             /\ rendered' = rendered \o r.out
             /\ raised' = r.exc
             /\ pc' = IF r.exc = "none" THEN "display_wordcloud" ELSE "crashed"
    /\ UNCHANGED <<keyword_input, lookback_period, search_button, query, now,
                   start_datetime, end_datetime, responses, timeline_df, tone_df,
                   articles_df>>

\* line 68, lines 208-236: every row of the model's article table has a title;
\* a failing translation is caught inside generate_wordcloud
DisplayWordcloud ==
    /\ pc = "display_wordcloud"
    /\ rendered' = rendered \o <<"wordcloud header", "wordcloud">>
    /\ pc' = "display_timeline"
    /\ UNCHANGED <<keyword_input, lookback_period, search_button, query, now,
                   start_datetime, end_datetime, responses, net, timeline_df,
                   tone_df, articles_df, summarizer, summary, raised>>

\* line 69, lines 257-271
DisplayTimeline ==
    /\ pc = "display_timeline"
    /\ rendered' = rendered \o <<"timeline header">>
                   \o (IF timeline_df # <<>> THEN <<"timeline chart">> ELSE <<>>)
    /\ pc' = "display_tone_chart"
    /\ UNCHANGED <<keyword_input, lookback_period, search_button, query, now,
                   start_datetime, end_datetime, responses, net, timeline_df,
                   tone_df, articles_df, summarizer, summary, raised>>

\* line 70, lines 273-287
DisplayToneChart ==
    /\ pc = "display_tone_chart"
    /\ rendered' = rendered \o <<"tone header">>
                   \o (IF tone_df # <<>> THEN <<"tone chart">> ELSE <<>>)
    /\ pc' = "display_article_headlines"
    /\ UNCHANGED <<keyword_input, lookback_period, search_button, query, now,
                   start_datetime, end_datetime, responses, net, timeline_df,
                   tone_df, articles_df, summarizer, summary, raised>>

\* line 71, lines 289-294: one link per article
DisplayArticleHeadlines ==
    /\ pc = "display_article_headlines"
    /\ rendered' = rendered \o <<"headlines header">>
                   \o [i \in 1..Len(articles_df) |-> "headline link"]
    /\ pc' = "done"
    /\ UNCHANGED <<keyword_input, lookback_period, search_button, query, now,
                   start_datetime, end_datetime, responses, net, timeline_df,
                   tone_df, articles_df, summarizer, summary, raised>>

\* build_query called on its own
CallBuildQuery ==
    /\ pc = "build_query"
    /\ query' = build_query(keyword_input)
    /\ pc' = "built"
    /\ UNCHANGED <<keyword_input, lookback_period, search_button, now,
                   start_datetime, end_datetime, responses, net, timeline_df,
                   tone_df, articles_df, summarizer, summary, rendered, raised>>

(***************************************************************************)
(* Specifications                                                          *)
(***************************************************************************)
\* The whole search handler, with a few answers of every shape per service.
\* None of its steps after line 58 reads the clock, which stands still here.
Next ==
    \/ Rerun
    \/ Validate
    \/ GetStartDate
    \/ QueryTimeline(FewTimelineResponses)
    \/ QueryTone(ToneResponses)
    \/ QueryArticles(ArticleResponses)
    \/ ShowResults
    \/ DisplaySummary
    \/ DisplayWordcloud
    \/ DisplayTimeline
    \/ DisplayToneChart
    \/ DisplayArticleHeadlines

Spec == Init /\ [][Next]_vars

\* build_query on every text of up to MaxLen characters
InitQuery ==
    /\ pc = "build_query"
    /\ keyword_input \in Texts
    /\ lookback_period = "1 month"
    /\ search_button = TRUE
    /\ now = 0
    /\ Fresh

NextQuery == CallBuildQuery

SpecQuery == InitQuery /\ [][NextQuery]_vars

\* a validated search at line 58, for every look-back token, as time passes
InitPeriod ==
    /\ pc = "period"
    /\ keyword_input = T_aaaaa
    /\ lookback_period \in LookbackOptions
    /\ search_button = TRUE
    /\ now = 0
    /\ Fresh

NextPeriod ==
    \/ Tick
    \/ GetStartDate

SpecPeriod == InitPeriod /\ [][NextPeriod]_vars

\* aggregate_gdelt_data on every timeline payload of up to MaxPoints points
GoodTone == {Http(200, Object(<<[bin |-> 0, count |-> 5]>>))}
GoodArticles == {Http(200, Object(<<[title |-> "t1", url |-> "u1"]>>))}

InitTimeline ==
    /\ pc = "timelinevol"
    /\ keyword_input = T_aaaaa
    /\ lookback_period = "1 week"
    /\ search_button = TRUE
    /\ now = 0
    /\ query = build_query(T_aaaaa)
    /\ start_datetime = get_start_date("1 week", 0)[1]
    /\ end_datetime = get_start_date("1 week", 0)[2]
    /\ responses = NoResponses
    /\ net = <<>>
    /\ timeline_df = <<>>
    /\ tone_df = <<>>
    /\ articles_df = <<>>
    /\ summarizer = "not called"
    /\ summary = ""
    /\ rendered = <<>>
    /\ raised = "none"

NextTimeline ==
    \/ QueryTimeline(AllTimelineResponses)
    \/ QueryTone(GoodTone)
    \/ QueryArticles(GoodArticles)

SpecTimeline == InitTimeline /\ [][NextTimeline]_vars

(***************************************************************************)
(* Properties                                                              *)
(***************************************************************************)
Range(f) == {f[i] : i \in DOMAIN f}

Table(m) ==
    CASE m = "timelinevol" -> timeline_df
      [] m = "tonechart" -> tone_df
      [] m = "artlist" -> articles_df

NonSuccessStatus(response) == response.kind = "http" /\ response.status # 200

\* status 200 with a JSON object that lists at least one row
WellFormedNonEmpty(m, response) ==
    /\ response.kind = "http"
    /\ response.status = 200
    /\ response.body.shape = "object"
    /\ response.body.content # <<>>
    /\ m = "timelinevol" => response.body.content[1].data # <<>>

\* the table of mode m holds the rows of the payload of mode m, in its order
BuiltFromOwnPayload(m) ==
    LET content == responses[m].body.content
    IN IF m = "timelinevol"
       THEN /\ Len(timeline_df) = Len(content[1].data)
            /\ \A i \in 1..Len(timeline_df) :
                  /\ timeline_df[i].date = content[1].data[i].date
                  /\ timeline_df[i].value = content[1].data[i].value
       ELSE Table(m) = content

\* C1: when exactly one of the three mode calls answers with a non-200 status
\* and the other two answer 200 with a well-formed non-empty payload, nothing is
\* raised, the failed mode's table is empty and the other two tables are
\* non-empty and hold the rows of their own payloads.
C1_PartialFailure ==
    \A m \in Modes :
        (/\ NonSuccessStatus(responses[m])
         /\ \A o \in Modes \ {m} : WellFormedNonEmpty(o, responses[o]))
        => /\ raised = "none"
           /\ pc # "crashed"
           /\ Table(m) = <<>>
           /\ \A o \in Modes \ {m} : Table(o) # <<>> /\ BuiltFromOwnPayload(o)

C1_Witness ==
    /\ pc = "results"
    /\ NonSuccessStatus(responses["tonechart"])
    /\ responses["tonechart"].body.content # <<>>
    /\ WellFormedNonEmpty("timelinevol", responses["timelinevol"])
    /\ WellFormedNonEmpty("artlist", responses["artlist"])
    /\ tone_df = <<>>
    /\ Len(timeline_df) = 2
    /\ Len(articles_df) = 2

\* C2: a mode call whose HTTP GET raises is downgraded to an empty table for
\* that mode: nothing propagates out of aggregate_gdelt_data, and the calls of
\* the remaining modes are still issued.
C2_TransportFailureDowngraded ==
    \A m \in Modes :
        responses[m].kind = "raise"
        => /\ raised = "none"
           /\ pc # "crashed"
           /\ Table(m) = <<>>

\* the query the claim describes: every trimmed piece wrapped in quotes unless
\* it is a quoted phrase already, one pair of parentheses when several result
FullyQuoted(piece) ==
    Len(piece) >= 2 /\ piece[1] = QUOTE /\ piece[Len(piece)] = QUOTE

Wrapped(piece) ==
    IF FullyQuoted(piece) THEN piece ELSE <<QUOTE>> \o piece \o <<QUOTE>>

ClaimedQuery(raw) ==
    LET pieces == split(raw)
        phrases == [i \in 1..Len(pieces) |-> Wrapped(strip(pieces[i]))]
    IN IF Len(phrases) > 1
       THEN <<"(">> \o join(OR_SEP, phrases) \o <<")">>
       ELSE phrases[1]

\* C3: for every raw keyword text build_query returns the trimmed pieces, each
\* wrapped in double quotes unless already fully quoted, joined by " OR " in one
\* pair of parentheses when there are several and bare when there is one.
C3_BuildQueryShape == pc = "built" => query = ClaimedQuery(keyword_input)

NonEmptyPhrases(raw) ==
    SelectSeq([i \in 1..Len(split(raw)) |-> strip(split(raw)[i])],
              LAMBDA piece : piece # <<>>)

\* C4: build_query fails with EmptyKeyword when no non-empty phrase remains
\* after splitting and trimming, and a query it returns has no empty phrase.
C4_EmptyKeywordRejected ==
    pc = "built"
    => /\ NonEmptyPhrases(keyword_input) = <<>> => raised = "EmptyKeyword"
       /\ raised = "none"
          => Len(NonEmptyPhrases(keyword_input)) = Len(split(keyword_input))

\* C5: a raw keyword of fewer than 5 characters ends the search with the
\* warning and with no call to either service, and every call to a service is
\* made in a run whose keyword passed that check.
C5_FailFast ==
    /\ net # <<>> => search_button /\ Len(keyword_input) >= 5
    /\ summarizer # "not called" => search_button /\ Len(keyword_input) >= 5
    /\ (search_button /\ Len(keyword_input) < 5 /\ pc # "validate")
       => /\ pc = "done"
          /\ rendered = <<"warning: at least 5 characters">>
          /\ net = <<>>
          /\ raised = "none"

C5_Witness ==
    /\ pc = "done"
    /\ search_button
    /\ Len(keyword_input) = 4
    /\ rendered = <<"warning: at least 5 characters">>
    /\ net = <<>>

StageOrder ==
    <<"summary header", "wordcloud header", "timeline header", "tone header",
      "headlines header">>

IsStageHeader(x) == x \in Range(StageOrder)

StagesRun == SelectSeq(rendered, IsStageHeader)

StagesDue ==
    CASE pc = "display_wordcloud" -> 1
      [] pc = "display_timeline" -> 2
      [] pc = "display_tone_chart" -> 3
      [] pc = "display_article_headlines" -> 4
      [] pc = "done" -> 5
      [] OTHER -> 0

SummarizerFailed ==
    summarizer \in {"generate_content raises", "response.text raises"}

\* C6: when the summarization service fails, the summary shown is the fixed
\* fallback text, nothing is raised, and word cloud, timeline chart, tone chart
\* and article headlines run after the summary, in that order.
C6_SummaryFallback ==
    SummarizerFailed
    => /\ raised = "none"
       /\ pc # "crashed"
       /\ summary = "Summary not available due to an error."
       /\ StagesRun = SubSeq(StageOrder, 1, StagesDue)
       /\ StagesDue >= 1

C6_Witness ==
    /\ pc = "done"
    /\ SummarizerFailed
    /\ summary = FallbackSummary
    /\ StagesRun = StageOrder

RECURSIVE SumValues(_, _, _)
SumValues(df, lo, hi) ==
    IF lo > hi THEN 0 ELSE df[lo].value + SumValues(df, lo + 1, hi)

\* C7: in the timeline table aggregate_gdelt_data returns, the moving average
\* is undefined at each of the first 6 points and at every point i >= 7 it is
\* the mean of the 7 values at points i-6..i.
C7_MovingAverage ==
    pc = "results"
    => \A i \in 1..Len(timeline_df) :
          IF i < 7
          THEN ~timeline_df[i].moving_avg.defined
          ELSE /\ timeline_df[i].moving_avg.defined
               /\ timeline_df[i].moving_avg.num * 7
                  = timeline_df[i].moving_avg.den * SumValues(timeline_df, i - 6, i)

C7_Witness ==
    /\ pc = "results"
    /\ Len(timeline_df) = 8
    /\ timeline_df[1].value # timeline_df[8].value
    /\ ~timeline_df[6].moving_avg.defined
    /\ timeline_df[8].moving_avg.defined
    /\ timeline_df[8].moving_avg.num = SumValues(timeline_df, 2, 8)

\* C8: the timeline table aggregate_gdelt_data returns is in ascending date
\* order whatever order the service lists the points in.
C8_SortedByDate ==
    pc = "results"
    => \A i, j \in 1..Len(timeline_df) :
          i < j => timeline_df[i].date <= timeline_df[j].date

ClaimedDays ==
    [p \in LookbackOptions |->
        CASE p = "1 week" -> 7
          [] p = "1 month" -> 30
          [] p = "3 months" -> 90
          [] p = "6 months" -> 180
          [] p = "1 year" -> 365]

\* C9: for each look-back token get_start_date returns an end equal to the
\* clock it read and a start exactly 7, 30, 90, 180 or 365 days before it, and
\* start <= end <= now holds from then on.
C9_LookbackPeriod ==
    /\ [][(pc = "period" /\ pc' # "period")
          => /\ end_datetime' = now
             /\ end_datetime' - start_datetime' = ClaimedDays[lookback_period]]_vars
    /\ [](pc # "period"
          => /\ start_datetime <= end_datetime
             /\ end_datetime <= now
             /\ end_datetime - start_datetime = ClaimedDays[lookback_period])

C9_Witness ==
    /\ pc # "period"
    /\ lookback_period = "1 year"
    /\ end_datetime = 3
    /\ start_datetime = 3 - 365
    /\ now > end_datetime

\* C10: after a validated search the "no results" state is shown exactly when
\* all three tables are empty, and a non-empty timeline or tone table has its
\* chart on the page whatever happened to the article list.
C10_NoResultsIffAllEmpty ==
    (pc = "done" /\ "results header" \in Range(rendered))
    => /\ ("warning: no articles found" \in Range(rendered))
          <=> (articles_df = <<>> /\ timeline_df = <<>> /\ tone_df = <<>>)
       /\ timeline_df # <<>> => "timeline chart" \in Range(rendered)
       /\ tone_df # <<>> => "tone chart" \in Range(rendered)

====
